---- MODULE Spec2Model ----
(***************************************************************************)
(* Hand-to-object directional guidance of Spectra.                         *)
(*                                                                         *)
(*   main.py                        hand_to_object_finder (one request)    *)
(*   backendcodeforobjectgrabber.py handtoobjectfinder (the webcam loop)   *)
(*                                                                         *)
(* The collaborators (detector, hand tracker, depth estimator, sentence    *)
(* model) are the environment: their outputs for the current frame are the *)
(* variables boxes, multi_hand_landmarks, depth_map and query_text.        *)
(*                                                                         *)
(* Numbers.  Pixel coordinates and depth samples are integers.  A cosine   *)
(* score is kept in hundredths (0.3 is 30).  A normalized wrist coordinate *)
(* is kept in units of 1/WristDen.  round(atan2(y, x) / (pi/4)) is         *)
(* computed exactly on integers (see Octant).                              *)
(***************************************************************************)
EXTENDS Integers, Sequences, FiniteSets

VARIABLES
    query_text,            \* the query of the request / the loop's input i
    boxes,                 \* yolo_results[0].boxes of the current frame
    multi_hand_landmarks,  \* hand_results.multi_hand_landmarks (wrists)
    depth_map,             \* the depth map at the two pixels that are read
    pc,                    \* "frame", then "done" (main.py) or "shown" (loop)
    results_text,          \* what hand_to_object_finder returned
    locals,                \* the locals hand_to_object_finder ended with
    name,                  \* webcam loop: name, kept from frame to frame
    loop,                  \* webcam loop: what the last iteration computed
    raising,               \* the collaborator that raises when called, or ""
    request,               \* process_request: what the request carried
    response               \* process_request: the JSONResponse it returned

vars == <<query_text, boxes, multi_hand_landmarks, depth_map, pc,
          results_text, locals, name, loop, raising, request, response>>

httpVars == <<request, response>>

(***************************************************************************)
(* Bounds and the sets the environment draws from.                         *)
(***************************************************************************)
MaxDets == 2

WristDen == 32

FrameWidth == 640

FrameHeight == 480

max_num_hands == 2

ObjectLabels == {"cup", "bottle"}

Labels == {"person"} \cup ObjectLabels

\* Two boxes: centres (400,240) and (280,240); the second has odd sums.
BoxA == <<300, 140, 500, 340>>

BoxB == <<200, 200, 361, 281>>

Detections ==
    {[label |-> "person", box |-> BoxA]}
        \cup {[label |-> l, box |-> b] : l \in ObjectLabels, b \in {BoxA, BoxB}}

\* Cosine scores in hundredths, around the 0.3 gate.
ScoreVals == {29, 30}

\* A query is known to the model by the score the sentence model gives it
\* against each label.
Queries == [ObjectLabels -> ScoreVals]

\* Wrist positions in units of 1/WristDen of the frame; the last two lie
\* outside [0,1] x [0,1], one beyond the right and top edges, one just left
\* of the left edge.
Wrists ==
    { <<5, 16>>, <<20, 16>>, <<17, 12>>, <<14, 10>>, <<14, 24>>, <<23, 20>>,
      <<33, -1>>, <<-1, 16>> }

\* Where a second hand, when the tracker reports one, has its wrist.
SecondWrists == { <<20, 16>> }

\* Depth samples: differences 0, 1, 10, 30, 31, 40, 41, 79, 80, 110, 120.
DepthVals == {0, 10, 40, 41, 120}

\* A depth map, restricted to the pixels a program samples: the one it reads
\* for the object and the one it reads for the hand.
DepthMaps == [object : DepthVals, hand : DepthVals]

(***************************************************************************)
(* Helpers shared by the two programs.                                     *)
(***************************************************************************)
Abs(n) == IF n < 0 THEN -n ELSE n

\* Python int(): truncation toward zero of num/den (den > 0).
TruncDiv(num, den) == IF num >= 0 THEN num \div den ELSE -((-num) \div den)

\* int(landmark * size) for a landmark of w/WristDen.
ScaleToPixel(w, size) == TruncDiv(w * size, WristDen)

\* Octant with atan2(0, 0) not taken as 0: the origin falls through to the
\* general case.
Octant_NoOrigin(ny, nx) ==
    LET ax == Abs(nx)
        ay == Abs(ny)
        q  == IF (ax + ay) * (ax + ay) < 2 * ax * ax THEN 0
              ELSE IF (ax + ay) * (ax + ay) < 2 * ay * ay THEN 2
              ELSE 1
        m  == IF nx >= 0 THEN q ELSE 4 - q
    IN  IF ny >= 0 THEN m ELSE -m

\* round(atan2(ny, nx) / (pi/4)) for integers ny, nx, in -4..4.
\* The sector boundaries are the odd multiples of 22.5 degrees, where
\* tan = sqrt(2)-1 or sqrt(2)+1; no integer pair lies on one, so the
\* comparison of squares is exact and the rounding rule never matters.
\* atan2(0, 0) = 0.
Octant(ny, nx) ==
    LET ax == Abs(nx)
        ay == Abs(ny)
        q  == IF (ax + ay) * (ax + ay) < 2 * ax * ax THEN 0
              ELSE IF (ax + ay) * (ax + ay) < 2 * ay * ay THEN 2
              ELSE 1
        m  == IF nx >= 0 THEN q ELSE 4 - q
    IN  IF nx = 0 /\ ny = 0 THEN 0
        ELSE IF ny >= 0 THEN m ELSE -m

\* sqrt(dx**2 + dy**2) <= r on integers.
PixelDistanceSq(dx, dy) == dx * dx + dy * dy

\* sorted(zip(scores, objs), reverse=True, key=score): a stable sort, so
\* equal scores keep their order.  Insertion from the right.
\* An insertion that puts an element behind its equals.
RECURSIVE InsertDesc_Unstable(_, _)
InsertDesc_Unstable(e, s) ==
    IF s = <<>> THEN <<e>>
    ELSE IF e[1] > Head(s)[1] THEN <<e>> \o s
    ELSE <<Head(s)>> \o InsertDesc_Unstable(e, Tail(s))

RECURSIVE InsertDesc(_, _)
InsertDesc(e, s) ==
    IF s = <<>> THEN <<e>>
    ELSE IF e[1] >= Head(s)[1] THEN <<e>> \o s
    ELSE <<Head(s)>> \o InsertDesc(e, Tail(s))

RECURSIVE SortedDesc(_)
SortedDesc(s) ==
    IF s = <<>> THEN <<>> ELSE InsertDesc(Head(s), SortedDesc(Tail(s)))

\* util.cos_sim(query_embedding, doc_embeddings)[0], in hundredths.
CosineScores(q, labels) == [i \in 1..Len(labels) |-> q[labels[i]]]

Zip(a, b) == [i \in 1..Len(a) |-> <<a[i], b[i]>>]

(***************************************************************************)
(* main.py: hand_to_object_finder.                                         *)
(***************************************************************************)
directions ==
    <<"directly right", "up and right", "directly up", "up and left",
      "directly left", "down and left", "directly down", "down and right">>

MatchThreshold == 30

depth_threshold_far == 80

depth_threshold_near == 30

pixel_distance_threshold_reach == 150

\* The loop over yolo_results[0].boxes: people are skipped, order kept.
DetectedObjects(bs) == SelectSeq(bs, LAMBDA b : b.label # "person")

object_labels(objs) == [i \in 1..Len(objs) |-> objs[i].label]

ranked_docs(q, objs) ==
    SortedDesc(Zip(CosineScores(q, object_labels(objs)), objs))

\* BelowGate with <= for <.
BelowGate_Inclusive(best_score) == best_score <= MatchThreshold

\* best_score < 0.3
BelowGate(best_score) == best_score < MatchThreshold

ObjectCenter(box) == <<(box[1] + box[3]) \div 2, (box[2] + box[4]) \div 2>>

\* min(max(0, int(landmark * size)), size - 1)
ClampToFrame(w, size) ==
    LET p == ScaleToPixel(w, size)
        lo == IF p > 0 THEN p ELSE 0
    IN  IF lo < size - 1 THEN lo ELSE size - 1

\* final_angle_index without the negation of dy.
final_angle_index_NoFlip(dx, dy) == (((Octant(dy, dx)) % 8) + 8) % 8

\* round(atan2(-dy, dx) / (pi/4)) % 8, then (int(.) + 8) % 8.
final_angle_index(dx, dy) == (((Octant(-dy, dx)) % 8) + 8) % 8

\* depth_map[y, x] for the target centre and for the wrist pixel.  The frame
\* holds one sample per pixel: where the two pixels are the same pixel, both
\* reads return the same sample.
ObjectDepth(dm) == dm.object

HandDepth(dm, hand, centre) == IF hand = centre THEN dm.object ELSE dm.hand

\* HandFarther under the opposite reading of the depth values.
HandFarther_Flipped(hand_depth, object_depth) == hand_depth > object_depth

\* hand_depth < object_depth, the second half of the far-branch condition.
HandFarther(hand_depth, object_depth) == hand_depth < object_depth

MoveForwardText(target, dir) ==
    <<"Move your hand forward towards the ", target, ", which is ", dir,
      " of your hand.">>

WithinReachText(target, dir) ==
    <<"The ", target, " is within reach, ", dir, " of your hand.">>

DefaultText(target, dir) == <<"The ", target, " is ", dir, " of your hand.">>

\* The text of the second empty check, which no call reaches.
NoObjectsText_SecondCheck == <<"No non-person objects detected.">>

NoObjectsText == <<"No objects detected in the scene.">>

LowConfidenceText(q, labels) ==
    <<"I couldn't clearly identify a ", q, ". Objects detected: ", labels, ".">>

NoHandText(target) == <<"I see a ", target, ", but I don't detect your hand.">>

\* Instruction with < for <= in the reach test.
Instruction_StrictReach(target, dir, depth_difference, hand_depth, object_depth, dist_sq) ==
    IF depth_difference >= depth_threshold_far
         /\ hand_depth < object_depth
    THEN MoveForwardText(target, dir)
    ELSE IF depth_difference <= depth_threshold_near
              /\ dist_sq < pixel_distance_threshold_reach
                             * pixel_distance_threshold_reach
    THEN WithinReachText(target, dir)
    ELSE DefaultText(target, dir)

\* The if / elif / else that ends the function.
Instruction(target, dir, depth_difference, hand_depth, object_depth, dist_sq) ==
    IF depth_difference >= depth_threshold_far
         /\ HandFarther(hand_depth, object_depth)
    THEN MoveForwardText(target, dir)
    ELSE IF depth_difference <= depth_threshold_near
              /\ dist_sq <= pixel_distance_threshold_reach
                              * pixel_distance_threshold_reach
    THEN WithinReachText(target, dir)
    ELSE DefaultText(target, dir)

NoLocals == [steps |-> <<>>]

\* From the hand lookup to the return: the geometry and the depth comparison.
Geometry(best, hands, dm, steps) ==
    LET target == best.label
        centre == ObjectCenter(best.box)
        hand   == <<ClampToFrame(hands[1][1], FrameWidth),
                    ClampToFrame(hands[1][2], FrameHeight)>>
        dx     == centre[1] - hand[1]
        dy     == centre[2] - hand[2]
        idx    == final_angle_index(dx, dy)
        od     == ObjectDepth(dm)
        hd     == HandDepth(dm, hand, centre)
        diff   == Abs(hd - od)
        dsq    == PixelDistanceSq(dx, dy)
    IN  [text |-> Instruction(target, directions[idx + 1], diff, hd, od, dsq),
         locals |-> [steps |-> steps \o <<"hand", "geometry">>,
                     target_object_name |-> target,
                     object_center |-> centre, hand |-> hand,
                     dx |-> dx, dy |-> dy, final_angle_index |-> idx,
                     object_depth |-> od, hand_depth |-> hd,
                     depth_difference |-> diff, pixel_distance_sq |-> dsq]]

\* Select with the hand check ahead of the confidence gate.
Select_HandFirst(q, objs, hands, dm, steps) ==
    LET ranked == ranked_docs(q, objs)
        best_score == ranked[1][1]
        best == ranked[1][2]
    IN  IF hands = <<>>
        THEN [text |-> NoHandText(best.label),
              locals |-> [steps |-> steps \o <<"rank", "hand">>,
                          best_score |-> best_score,
                          target_object_name |-> best.label]]
        ELSE IF BelowGate(best_score)
        THEN [text |-> LowConfidenceText(q, object_labels(objs)),
              locals |-> [steps |-> steps \o <<"rank">>,
                          best_score |-> best_score]]
        ELSE Geometry(best, hands, dm, steps \o <<"rank">>)

\* From the ranking to the hand check.
Select(q, objs, hands, dm, steps) ==
    LET ranked == ranked_docs(q, objs)
        best_score == ranked[1][1]
        best == ranked[1][2]
    IN  IF BelowGate(best_score)
        THEN [text |-> LowConfidenceText(q, object_labels(objs)),
              locals |-> [steps |-> steps \o <<"rank">>,
                          best_score |-> best_score]]
        ELSE IF hands = <<>>
        THEN [text |-> NoHandText(best.label),
              locals |-> [steps |-> steps \o <<"rank", "hand">>,
                          best_score |-> best_score,
                          target_object_name |-> best.label]]
        ELSE Geometry(best, hands, dm, steps \o <<"rank">>)

\* The collaborators the call reaches before it looks at any answer, in the
\* order of the calls, and the one it reaches only with a retained object.
FirstCalls ==
    {"sentance_model.encode", "hands.process", "model", "depth_estimator"}

RankCall == "util.cos_sim"

\* ErrorText with the exception put into the sentence.
ErrorText_WithCause(e) ==
    <<"Error finding the object relative to your hand: ", e>>

\* except Exception as e: e is printed, the returned sentence is fixed.
ErrorText(e) == <<"Error finding the object relative to your hand.">>

\* The try block spans the whole body, the first encode included.
Caught(e) == TRUE

\* An exception raised in the body.  One that left the call would be the
\* outcome <<"raise", e>>.
Except(e, steps) ==
    [text |-> IF Caught(e) THEN ErrorText(e) ELSE <<"raise", e>>,
     locals |-> [steps |-> steps \o <<"except">>, e |-> e]]

\* The whole call: what it returns and the locals it ended with.  exc names
\* the collaborator that raises when called ("" when none does).
HandToObjectFinder(q, bs, hands, dm, exc) ==
    LET objs == DetectedObjects(bs)
    IN  IF exc \in FirstCalls THEN Except(exc, <<>>)
        ELSE IF objs = <<>>
        THEN [text |-> NoObjectsText, locals |-> [steps |-> <<"filter">>]]
        ELSE IF exc = RankCall THEN Except(exc, <<"filter">>)
        ELSE Select(q, objs, hands, dm, <<"filter">>)

(***************************************************************************)
(* The environment and one request.                                        *)
(***************************************************************************)
NoLoop == [geometry |-> FALSE]

NoRequest == [file |-> "none"]

NoResponse == [status_code |-> 0]

Init ==
    /\ query_text \in Queries
    /\ depth_map \in DepthMaps
    /\ boxes = <<>>
    /\ multi_hand_landmarks = <<>>
    /\ pc = "frame"
    /\ results_text = <<>>
    /\ locals = NoLocals
    /\ name = ""
    /\ loop = NoLoop
    /\ raising = ""
    /\ request = NoRequest
    /\ response = NoResponse

\* The detector reports one more box.
Detect(d) ==
    /\ pc = "frame"
    /\ raising = ""
    /\ Len(boxes) < MaxDets
    /\ boxes' = Append(boxes, d)
    /\ UNCHANGED <<query_text, multi_hand_landmarks, depth_map, pc,
                   results_text, locals, name, loop, raising, httpVars>>

\* The hand tracker reports one more hand.
TrackHand(w) ==
    /\ pc = "frame"
    /\ raising = ""
    /\ Len(multi_hand_landmarks) < max_num_hands
    /\ multi_hand_landmarks = <<>> \/ w \in SecondWrists
    /\ multi_hand_landmarks' = Append(multi_hand_landmarks, w)
    /\ UNCHANGED <<query_text, boxes, depth_map, pc, results_text, locals,
                   name, loop, raising, httpVars>>

\* A collaborator raises instead of answering; those the code calls after
\* it are never called.  The order of the calls is encode, hands.process,
\* model, depth_estimator and, with a retained object, cos_sim.
Raise(e) ==
    /\ pc = "frame"
    /\ raising = ""
    /\ e \in {"sentance_model.encode", "hands.process"}
         => boxes = <<>> /\ multi_hand_landmarks = <<>>
    /\ e = "model" => boxes = <<>>
    /\ raising' = e
    /\ UNCHANGED <<query_text, boxes, multi_hand_landmarks, depth_map, pc,
                   results_text, locals, name, loop, httpVars>>

\* hand_to_object_finder(image, query_text), from entry to return.
Call ==
    /\ pc = "frame"
    /\ LET r == HandToObjectFinder(query_text, boxes, multi_hand_landmarks,
                                   depth_map, raising)
       IN  /\ results_text' = r.text
           /\ locals' = r.locals
    /\ pc' = "done"
    /\ UNCHANGED <<query_text, boxes, multi_hand_landmarks, depth_map, name,
                   loop, raising, httpVars>>

\* The next request: another query, another frame.
NextRequest(q, dm) ==
    /\ pc = "done"
    /\ query_text' = q
    /\ depth_map' = dm
    /\ boxes' = <<>>
    /\ multi_hand_landmarks' = <<>>
    /\ pc' = "frame"
    /\ results_text' = <<>>
    /\ locals' = NoLocals
    /\ raising' = ""
    /\ UNCHANGED <<name, loop, httpVars>>

Next ==
    \/ \E d \in Detections : Detect(d)
    \/ \E w \in Wrists : TrackHand(w)
    \/ \E e \in FirstCalls \cup {RankCall} : Raise(e)
    \/ Call
    \/ \E q \in Queries, dm \in DepthMaps : NextRequest(q, dm)

Spec == Init /\ [][Next]_vars

(***************************************************************************)
(* backendcodeforobjectgrabber.py: handtoobjectfinder, one iteration of    *)
(* its while loop per frame.  name is assigned before the loop and then    *)
(* only by the ranking, so it carries over from one frame to the next.     *)
(***************************************************************************)
loop_directions ==
    <<"Right", "Up-Right", "Up", "Up-Left",
      "Left", "Down-Left", "Down", "Down-Right">>

\* c: the boxes of class 0 (person), skipped by continue.
PersonCount(bs) == Len(SelectSeq(bs, LAMBDA b : b.label = "person"))

\* things: the labels of the boxes that are not people, in order.
things(bs) == object_labels(SelectSeq(bs, LAMBDA b : b.label # "person"))

\* x1s, y1s, x2s, y2s: 0, 0, 0, 0, overwritten by every box that is not a
\* person and whose label equals name as the frame began.
SelectedBox(bs, nm) ==
    LET hits == {i \in 1..Len(bs) : bs[i].label # "person" /\ bs[i].label = nm}
    IN  IF hits = {} THEN <<0, 0, 0, 0>>
        ELSE bs[CHOOSE i \in hits : \A j \in hits : j <= i].box

\* score, name = ranked_docs[0], when things is not empty.
RankedName(q, bs, nm) ==
    LET th == things(bs)
    IN  IF th = <<>> THEN nm
        ELSE SortedDesc(Zip(CosineScores(q, th), th))[1][2]

\* round((angle + pi) / (pi/4)) % 8 with angle = atan2(dy, dx) brought
\* into [-pi, pi).
angleindex(dx, dy) == (Octant(dy, dx) + 4) % 8

\* depth_map[hand_y, hand_x]: an index i in -size..-1 reads element
\* size + i of the array.
ArrayIndex(i, size) == IF i < 0 THEN i + size ELSE i

\* The print of the depth branch.
LoopPrint(diff, dist_sq, idx) ==
    IF diff >= 80 THEN "go forward"
    ELSE IF diff <= 30 /\ dist_sq <= 150 * 150 THEN "object within reach"
    ELSE loop_directions[idx + 1]

\* One iteration, from cap.read() to cv2.imshow().
Iteration(q, bs, hands, dm, nm) ==
    LET box      == SelectedBox(bs, nm)
        object   == ObjectCenter(box)
    IN  IF hands # <<>> /\ Len(bs) - PersonCount(bs) # 0
        THEN LET hand == <<ScaleToPixel(hands[1][1], FrameWidth),
                           ScaleToPixel(hands[1][2], FrameHeight)>>
                 dx   == object[1] - hand[1]
                 dy   == object[2] - hand[2]
                 idx  == angleindex(dx, dy)
                 dsq  == PixelDistanceSq(dx, dy)
                 read == hand[2] < 460 /\ hand[1] < 620
                 obd  == ObjectDepth(dm)
                 at   == <<ArrayIndex(hand[1], FrameWidth),
                           ArrayIndex(hand[2], FrameHeight)>>
                 hd   == HandDepth(dm, at, object)
             IN  [geometry |-> TRUE, box |-> box, object |-> object,
                  hand |-> hand, dx |-> dx, dy |-> dy, angleindex |-> idx,
                  direction |-> loop_directions[idx + 1],
                  dist_sq |-> dsq, depth_read |-> read, depth_index |-> at,
                  printed |-> IF read THEN LoopPrint(Abs(hd - obd), dsq, idx)
                              ELSE ""]
        ELSE [geometry |-> FALSE, box |-> box, object |-> object]

Iterate ==
    /\ pc = "frame"
    /\ loop' = Iteration(query_text, boxes, multi_hand_landmarks, depth_map,
                         name)
    /\ name' = RankedName(query_text, boxes, name)
    /\ pc' = "shown"
    /\ UNCHANGED <<query_text, boxes, multi_hand_landmarks, depth_map,
                   results_text, locals, raising, httpVars>>

\* The loop goes round: cap.read() delivers the next frame.
NextFrame(dm) ==
    /\ pc = "shown"
    /\ depth_map' = dm
    /\ boxes' = <<>>
    /\ multi_hand_landmarks' = <<>>
    /\ pc' = "frame"
    /\ loop' = NoLoop
    /\ UNCHANGED <<query_text, results_text, locals, name, raising, httpVars>>

\* 'q' is pressed, or cap.read() fails: break.
Quit ==
    /\ pc = "shown"
    /\ pc' = "closed"
    /\ UNCHANGED <<query_text, boxes, multi_hand_landmarks, depth_map,
                   results_text, locals, name, loop, raising, httpVars>>

NextLoop ==
    \/ \E d \in Detections : Detect(d)
    \/ \E w \in Wrists : TrackHand(w)
    \/ Iterate
    \/ \E dm \in DepthMaps : NextFrame(dm)
    \/ Quit

SpecLoop == Init /\ [][NextLoop]_vars

(***************************************************************************)
(* main.py: process_request, the /process endpoint around the call.        *)
(***************************************************************************)
prompts ==
    <<"Read the text", "describe what I am viewing",
      "Identify object location", "Other">>

IntentThreshold == 35

\* Cosine scores of the query against the four prompts, in hundredths: a
\* query resembles one prompt, at or just above the 0.35 gate, and is far
\* from the other three.
IntentScoreVals == {20, 35, 36}

IntentScores ==
    {sc \in [{prompts[i] : i \in 1..4} -> IntentScoreVals] :
        Cardinality({i \in 1..4 : sc[prompts[i]] # 20}) = 1}

\* The upload: no image part, an image part of zero bytes, a readable image.
Files == {"none", "empty", "image"}

\* What perform_ocr_and_speak and analyze_image_with_gpt can return; the
\* last GPT text is the one for a missing api_key.
OcrTexts ==
    { <<"EXIT">>, <<"No text found in the image.">>,
      <<"Error performing text recognition.">> }

GptTexts ==
    { <<"A cup is on the table to your left.">>,
      <<"Error analyzing the image.">>,
      <<"Error: OpenAI API key is not configured on the server.">> }

\* The frames the endpoint is exercised with have one of these depth maps.
RequestDepthMaps ==
    { [object |-> 0, hand |-> 0], [object |-> 120, hand |-> 40] }

\* sorted(zip(cosine_scores, prompts), reverse=True, key=score)[0]
TopIntent(sc) ==
    SortedDesc(Zip([i \in 1..4 |-> sc[prompts[i]]], prompts))[1]

\* IntentUnclear with < for <=.
IntentUnclear_Strict(score) == score < IntentThreshold

\* score <= 0.35
IntentUnclear(score) == score <= IntentThreshold

\* text.startswith("Error"), over the sentences the program builds.
StartsWithError(text) ==
    text[1] \in { "Error finding the object relative to your hand.",
                  "Error finding the object relative to your hand: ",
                  "Error performing text recognition.",
                  "Error analyzing the image.",
                  "Error: OpenAI API key is not configured on the server." }

\* text_to_speech: None for an empty or "Error..." text and when gTTS
\* raises, the encoded audio otherwise.
text_to_speech(text, gtts_ok) ==
    IF text = <<>> \/ StartsWithError(text) THEN "null"
    ELSE IF gtts_ok THEN "audio" ELSE "null"

CouldNotUnderstandText ==
    <<"I'm sorry, I couldn't quite understand your request. Could you please rephrase?">>

NotEquippedText ==
    <<"I am not equipped to handle that request. Please try asking something else, like 'read the text', 'describe what I see', or 'find the [object]'.">>

\* The HTTPException raised by the image handling, or <<>> when it lets
\* the request through.
ImageRejection(file, intent) ==
    IF file = "empty" THEN <<"Uploaded image file is empty.">>
    ELSE IF file = "none" /\ intent \in {prompts[1], prompts[2], prompts[3]}
    THEN <<"This request ('", intent, "') requires an image. Please provide one.">>
    ELSE <<>>

NotCalled == [text |-> <<>>, locals |-> NoLocals]

\* The action routing: the engine's outcome (NotCalled when the engine is
\* not called) and results_text.
Route(score, intent, q, bs, hands, dm, exc, ocr, gpt) ==
    IF IntentUnclear(score)
    THEN [engine |-> NotCalled, text |-> CouldNotUnderstandText]
    ELSE IF intent = prompts[1] THEN [engine |-> NotCalled, text |-> ocr]
    ELSE IF intent = prompts[2] THEN [engine |-> NotCalled, text |-> gpt]
    ELSE IF intent = prompts[3]
    THEN LET r == HandToObjectFinder(q, bs, hands, dm, exc)
         IN  [engine |-> r, text |-> r.text]
    ELSE [engine |-> NotCalled, text |-> NotEquippedText]

\* The whole handler: the engine's outcome and the JSONResponse.
process_request(sc, file, gtts_ok, q, bs, hands, dm, exc, ocr, gpt) ==
    LET top    == TopIntent(sc)
        score  == top[1]
        intent == top[2]
        detail == ImageRejection(file, intent)
        routed == Route(score, intent, q, bs, hands, dm, exc, ocr, gpt)
    IN  IF detail # <<>>
        THEN [engine |-> NotCalled,
              response |-> [status_code |-> 400, key |-> "error",
                            text |-> detail,
                            audio_base64 |-> text_to_speech(detail, gtts_ok)]]
        ELSE IF routed.text[1] = "raise"
        THEN [engine |-> routed.engine,
              response |-> [status_code |-> 500, key |-> "error",
                            text |-> <<"An internal server error occurred.">>,
                            audio_base64 |-> text_to_speech(
                                <<"Sorry, an internal error occurred.">>,
                                gtts_ok)]]
        ELSE [engine |-> routed.engine,
              response |-> [status_code |-> 200, key |-> "recognized_text",
                            text |-> routed.text,
                            audio_base64 |-> text_to_speech(routed.text,
                                                            gtts_ok)]]

\* One POST /process, from the request to the JSONResponse.
ProcessRequest(sc, file, gtts_ok, ocr, gpt) ==
    /\ pc = "frame"
    /\ LET r == process_request(sc, file, gtts_ok, query_text, boxes,
                                multi_hand_landmarks, depth_map, raising,
                                ocr, gpt)
       IN  /\ results_text' = r.engine.text
           /\ locals' = r.engine.locals
           /\ response' = r.response
    /\ request' = [file |-> file, scores |-> sc, gtts_ok |-> gtts_ok]
    /\ pc' = "responded"
    /\ UNCHANGED <<query_text, boxes, multi_hand_landmarks, depth_map, name,
                   loop, raising>>

\* The next POST: another query, another upload.
NextUpload(q, dm) ==
    /\ pc = "responded"
    /\ query_text' = q
    /\ depth_map' = dm
    /\ boxes' = <<>>
    /\ multi_hand_landmarks' = <<>>
    /\ pc' = "frame"
    /\ results_text' = <<>>
    /\ locals' = NoLocals
    /\ raising' = ""
    /\ request' = NoRequest
    /\ response' = NoResponse
    /\ UNCHANGED <<name, loop>>

InitServer == Init /\ depth_map \in RequestDepthMaps

NextServer ==
    \/ \E d \in Detections : Detect(d)
    \/ \E w \in SecondWrists : TrackHand(w)
    \/ \E e \in FirstCalls \cup {RankCall} : Raise(e)
    \/ \E sc \in IntentScores, f \in Files, ok \in BOOLEAN,
          ocr \in OcrTexts, gpt \in GptTexts :
            ProcessRequest(sc, f, ok, ocr, gpt)
    \/ \E q \in Queries, dm \in RequestDepthMaps : NextUpload(q, dm)

SpecServer == InitServer /\ [][NextServer]_vars

(***************************************************************************)
(* What the claims speak of, stated on the inputs of the request and not   *)
(* through the definitions above.                                          *)
(***************************************************************************)
Returned == pc = "done"

\* The detector, the hand tracker and the depth estimator answered.
Answered == raising \in {"", "util.cos_sim"}

\* Every collaborator that is called answers.
NoneRaises == raising = ""

Retained == {i \in 1..Len(boxes) : boxes[i].label # "person"}

ScoreOf(i) == query_text[boxes[i].label]

TopScore == CHOOSE s \in {ScoreOf(i) : i \in Retained} :
                \A i \in Retained : ScoreOf(i) <= s

RECURSIVE LabelsWithoutPeople(_)
LabelsWithoutPeople(bs) ==
    IF bs = <<>> THEN <<>>
    ELSE IF Head(bs).label = "person" THEN LabelsWithoutPeople(Tail(bs))
    ELSE <<Head(bs).label>> \o LabelsWithoutPeople(Tail(bs))

GeometryDone == Returned /\ Len(locals.steps) = 4

IsMoveForward ==
    /\ Len(results_text) = 5
    /\ results_text[1] = "Move your hand forward towards the "
    /\ results_text[3] = ", which is "

IsWithinReach ==
    Len(results_text) = 5 /\ results_text[3] = " is within reach, "

IsDefault == Len(results_text) = 5 /\ results_text[3] = " is "

DirectionSaid == results_text[4]

\* C1: a detection list that is empty or holds only people ends the call
\* with "No objects detected in the scene.", whatever the query, the hands
\* and the depth map are, and nothing after the filter runs.
C1_OnlyPeopleIsNoObjects ==
    (Returned /\ Answered /\ Retained = {})
        => /\ results_text = <<"No objects detected in the scene.">>
           /\ locals.steps = <<"filter">>

C1_Witness ==
    /\ Returned
    /\ Len(boxes) = 2
    /\ Retained = {}
    /\ multi_hand_landmarks # <<>>
    /\ depth_map.hand = 120 /\ depth_map.object = 0
    /\ results_text = <<"No objects detected in the scene.">>

\* C2: with a retained detection and every retained score below 0.3 the
\* call ends with the low-confidence text, which lists the retained labels
\* in detector order, with or without a hand and whatever the boxes and the
\* depth are; a top score of exactly 0.3 is not rejected.
C2_LowConfidence ==
    (Returned /\ NoneRaises /\ Retained # {})
        => /\ TopScore < 30
               => /\ results_text =
                        <<"I couldn't clearly identify a ", query_text,
                          ". Objects detected: ", LabelsWithoutPeople(boxes),
                          ".">>
                  /\ locals.steps = <<"filter", "rank">>
           /\ TopScore = 30
               => results_text[1] # "I couldn't clearly identify a "

C2_Witness ==
    /\ Returned
    /\ Len(boxes) = 2
    /\ boxes[1].label = "bottle" /\ boxes[2].label = "cup"
    /\ TopScore < 30
    /\ multi_hand_landmarks # <<>>
    /\ results_text[4] = <<"bottle", "cup">>

C2_WitnessAtGate ==
    /\ Returned /\ Retained # {} /\ TopScore = 30
    /\ results_text[1] # "I couldn't clearly identify a "

\* C3: in the webcam loop, whenever a frame's geometry is computed, the
\* object centre it uses is the centre of the box of the detection ranked
\* best for the query in that same frame.
C3_LoopUsesBestBoxOfFrame ==
    (pc = "shown" /\ loop.geometry)
        => \E i \in Retained :
              /\ ScoreOf(i) = TopScore
              /\ \A j \in Retained : ScoreOf(j) = TopScore => i <= j
              /\ loop.object = <<(boxes[i].box[1] + boxes[i].box[3]) \div 2,
                                 (boxes[i].box[2] + boxes[i].box[4]) \div 2>>

\* C5: the direction said is one of the 8 labels, counter-clockwise from
\* "directly right", for (dx, dy) = object centre minus hand in image
\* coordinates.
C5_DirectionLabels ==
    GeometryDone =>
        LET dx == locals.object_center[1] - locals.hand[1]
            dy == locals.object_center[2] - locals.hand[2]
            d  == DirectionSaid
        IN  /\ locals.final_angle_index \in 0..7
            /\ d \in {"directly right", "up and right", "directly up",
                      "up and left", "directly left", "down and left",
                      "directly down", "down and right"}
            /\ (dx > 0 /\ dy = 0) => d = "directly right"
            /\ (dx > 0 /\ dy = -dx) => d = "up and right"
            /\ (dx = 0 /\ dy < 0) => d = "directly up"
            /\ (dx < 0 /\ dy = dx) => d = "up and left"
            /\ (dx < 0 /\ dy = 0) => d = "directly left"
            /\ (dx < 0 /\ dy = -dx) => d = "down and left"
            /\ (dx = 0 /\ dy > 0) => d = "directly down"
            /\ (dx > 0 /\ dy = dx) => d = "down and right"

C5_Witness ==
    /\ GeometryDone
    /\ locals.dx < 0 /\ locals.dy = -locals.dx
    /\ DirectionSaid = "down and left"

\* C6: with the hand pixel on the target centre and a depth difference of
\* at most 30, the pixel distance is 0 and the call says "within reach",
\* "directly right".
C6_CoincidentIsWithinReach ==
    (GeometryDone /\ locals.hand = locals.object_center
        /\ locals.depth_difference <= 30)
        => /\ locals.pixel_distance_sq = 0
           /\ results_text = <<"The ", locals.target_object_name,
                               " is within reach, ", "directly right",
                               " of your hand.">>

C6_Witness ==
    /\ GeometryDone
    /\ locals.hand = <<400, 240>> /\ locals.object_center = <<400, 240>>
    /\ IsWithinReach
    /\ DirectionSaid = "directly right"

\* C7: "move forward" is said exactly when the depth difference is at least
\* 80 and the hand's depth value is greater than the object's.
C7_MoveForwardWhenHandValueGreater ==
    GeometryDone =>
        (IsMoveForward <=> (locals.depth_difference >= 80
                            /\ locals.hand_depth > locals.object_depth))

C9_WithinReachOrDefault ==
    (GeometryDone /\ ~IsMoveForward)
        => LET near == /\ locals.depth_difference <= 30
                       /\ locals.pixel_distance_sq <= 150 * 150
           IN  /\ near => results_text =
                             <<"The ", locals.target_object_name,
                               " is within reach, ", DirectionSaid,
                               " of your hand.">>
               /\ ~near => results_text =
                             <<"The ", locals.target_object_name, " is ",
                               DirectionSaid, " of your hand.">>
               /\ (locals.dx = 300 /\ locals.dy = 0
                     /\ locals.depth_difference = 10)
                    => /\ IsDefault
                       /\ DirectionSaid = "directly right"

C9_Witness ==
    /\ GeometryDone
    /\ locals.dx = 300 /\ locals.dy = 0
    /\ locals.depth_difference = 10
    /\ IsDefault
    /\ DirectionSaid = "directly right"

C9_WitnessAtBounds ==
    /\ GeometryDone
    /\ locals.pixel_distance_sq = 150 * 150
    /\ locals.depth_difference = 30
    /\ IsWithinReach

\* C10: with a best match of at least 0.3 and no hand, the call ends with
\* the no-hand text naming the target; the outcomes are decided in the
\* order no objects, low confidence, no hand, geometry.
C10_NoHandNamesTarget ==
    (Returned /\ NoneRaises) =>
        /\ (Retained # {} /\ TopScore >= 30 /\ multi_hand_landmarks = <<>>)
             => /\ Len(results_text) = 3
                /\ results_text[1] = "I see a "
                /\ results_text[2] \in {boxes[i].label : i \in
                                          {j \in Retained : ScoreOf(j) = TopScore}}
                /\ results_text[3] = ", but I don't detect your hand."
                /\ locals.steps = <<"filter", "rank", "hand">>
        /\ (Retained = {} /\ multi_hand_landmarks = <<>>)
             => results_text = <<"No objects detected in the scene.">>
        /\ (Retained # {} /\ TopScore < 30 /\ multi_hand_landmarks = <<>>)
             => results_text[1] = "I couldn't clearly identify a "
        /\ (Retained # {} /\ TopScore >= 30 /\ multi_hand_landmarks # <<>>)
             => locals.steps = <<"filter", "rank", "hand", "geometry">>

C10_Witness ==
    /\ Returned
    /\ Len(boxes) = 2 /\ boxes[1].label = "person" /\ boxes[2].label = "cup"
    /\ multi_hand_landmarks = <<>>
    /\ results_text = <<"I see a ", "cup", ", but I don't detect your hand.">>

\* C12: the call never lets an exception out: whichever collaborator
\* raises, at whichever stage it is called, the call returns one fixed
\* sentence, the same for every stage, with nothing of the exception in it.
C12_OneGenericMessage ==
    (Returned /\ raising # "" /\ (raising = "util.cos_sim" => Retained # {}))
        => /\ results_text =
                <<"Error finding the object relative to your hand.">>
           /\ locals.e = raising

C12_Witness ==
    /\ Returned
    /\ raising = "util.cos_sim"
    /\ Retained # {}
    /\ multi_hand_landmarks # <<>>
    /\ results_text = <<"Error finding the object relative to your hand.">>

Responded == pc = "responded"

EngineCalled == results_text # <<>>

\* The top-ranked intent of the request: the first prompt, in the order of
\* prompts, among those with the highest score.
TopPrompt ==
    CHOOSE i \in 1..4 :
        /\ \A j \in 1..4 : request.scores[prompts[j]] <= request.scores[prompts[i]]
        /\ \A j \in 1..(i - 1) :
              request.scores[prompts[j]] < request.scores[prompts[i]]

TopIntentScore == request.scores[prompts[TopPrompt]]

EngineFailed ==
    results_text[1] \in { "No objects detected in the scene.",
                          "I couldn't clearly identify a ",
                          "I see a ",
                          "Error finding the object relative to your hand." }

\* C11: every failure outcome of the engine reaches the user as a text and
\* as audio for that text, when the speech synthesis itself succeeds.
C11_EveryFailureIsSpoken ==
    (Responded /\ EngineCalled /\ EngineFailed /\ request.gtts_ok)
        => /\ response.text = results_text
           /\ response.audio_base64 # "null"

\* C13 (a): the engine is called only for the top intent 'Identify object
\* location' with an intent score strictly above 0.35.
C13_EngineOnlyAboveIntentGate ==
    (Responded /\ EngineCalled)
        => /\ prompts[TopPrompt] = "Identify object location"
           /\ TopIntentScore > 35

\* C13 (c): inside the engine the gate is 0.3 whatever the intent score was:
\* a best object score in [0.3, 0.35] goes on to the hand check and, with a
\* hand, to the geometry.
C13_ObjectGateIsItsOwn ==
    (Responded /\ EngineCalled /\ NoneRaises /\ Retained # {}
        /\ TopScore >= 30 /\ TopScore <= 35)
        => /\ Len(locals.steps) >= 3
           /\ locals.steps[3] = "hand"
           /\ multi_hand_landmarks # <<>>
                => locals.steps = <<"filter", "rank", "hand", "geometry">>

\* C13 as claimed: (a), (c), and an intent score <= 0.35 always yields the
\* 'could not understand' reply and no engine call.
C13_TwoGates_AsClaimed ==
    /\ C13_EngineOnlyAboveIntentGate
    /\ C13_ObjectGateIsItsOwn
    /\ (Responded /\ TopIntentScore <= 35)
         => /\ ~EngineCalled
            /\ response.text =
                 <<"I'm sorry, I couldn't quite understand your request. Could you please rephrase?">>

\* C13 as amended: (a), (c), and an intent score <= 0.35 yields no engine
\* call and, unless the image handling has already answered with HTTP 400
\* (an empty upload, or no image for one of the three image intents), the
\* 'could not understand' reply.
C13_TwoGates ==
    /\ C13_EngineOnlyAboveIntentGate
    /\ C13_ObjectGateIsItsOwn
    /\ (Responded /\ TopIntentScore <= 35)
         => /\ ~EngineCalled
            /\ \/ /\ response.status_code = 200
                  /\ response.text =
                       <<"I'm sorry, I couldn't quite understand your request. Could you please rephrase?">>
               \/ /\ response.status_code = 400
                  /\ \/ request.file = "empty"
                     \/ request.file = "none" /\ TopPrompt \in 1..3

C13_Witness ==
    /\ Responded
    /\ EngineCalled
    /\ TopIntentScore = 36
    /\ Retained # {} /\ TopScore = 30
    /\ locals.steps = <<"filter", "rank", "hand", "geometry">>
    /\ response.status_code = 200

C13_WitnessBelowGate ==
    /\ Responded
    /\ TopIntentScore = 35 /\ TopPrompt = 3
    /\ request.file = "image"
    /\ boxes # <<>>
    /\ ~EngineCalled
    /\ response.text[1] = "I'm sorry, I couldn't quite understand your request. Could you please rephrase?"

FirstHand == multi_hand_landmarks[1]

\* C14, main.py: the hand pixel of the geometry is the clamped position of
\* the first hand's wrist and lies inside the frame.
C14_MainHandInsideFrame ==
    GeometryDone
        => /\ locals.hand[1] >= 0 /\ locals.hand[1] <= FrameWidth - 1
           /\ locals.hand[2] >= 0 /\ locals.hand[2] <= FrameHeight - 1
           /\ (FirstHand[1] >= 0 /\ FirstHand[1] <= WristDen - 1)
                => locals.hand[1] = (FirstHand[1] * FrameWidth) \div WristDen
           /\ (FirstHand[2] >= 0 /\ FirstHand[2] <= WristDen - 1)
                => locals.hand[2] = (FirstHand[2] * FrameHeight) \div WristDen

\* C14, webcam loop: whenever the loop reads the depth map at the hand, the
\* hand position is inside the depth map: 0 <= hand_x <= 639 and
\* 0 <= hand_y <= 479.
C14_LoopHandInsideDepthMap ==
    (pc = "shown" /\ loop.geometry /\ loop.depth_read)
        => /\ loop.hand[1] >= 0 /\ loop.hand[1] <= FrameWidth - 1
           /\ loop.hand[2] >= 0 /\ loop.hand[2] <= FrameHeight - 1

\* C16: in the webcam loop the label of the frame is "Right" for an object
\* directly right of the hand (dx > 0, dy = 0) and "Up" for an object
\* directly above it (dx = 0, dy < 0).
C16_LoopRightAndUp ==
    (pc = "shown" /\ loop.geometry)
        => /\ (loop.dx > 0 /\ loop.dy = 0) => loop.direction = "Right"
           /\ (loop.dx = 0 /\ loop.dy < 0) => loop.direction = "Up"

\* The first detection, in detector order, among the retained ones with the
\* maximum score.
FirstBest ==
    CHOOSE i \in Retained :
        /\ ScoreOf(i) = TopScore
        /\ \A j \in Retained : ScoreOf(j) = TopScore => i <= j

\* C15: the target is a retained detection with the maximum score, the
\* first such in detector order, and the geometry uses its box.
C15_FirstOfEqualScores ==
    (Returned /\ NoneRaises /\ Retained # {} /\ TopScore >= 30)
        => /\ locals.target_object_name = boxes[FirstBest].label
           /\ multi_hand_landmarks # <<>>
                => /\ locals.object_center[1]
                        = (boxes[FirstBest].box[1] + boxes[FirstBest].box[3]) \div 2
                   /\ locals.object_center[2]
                        = (boxes[FirstBest].box[2] + boxes[FirstBest].box[4]) \div 2
                   /\ locals.dx = locals.object_center[1] - locals.hand[1]
                   /\ locals.dy = locals.object_center[2] - locals.hand[2]

C15_Witness ==
    /\ GeometryDone
    /\ Len(boxes) = 2
    /\ boxes[1].label = boxes[2].label
    /\ boxes[1].label # "person"
    /\ boxes[1].box # boxes[2].box
    /\ ScoreOf(1) = TopScore /\ ScoreOf(2) = TopScore
    /\ locals.object_center = <<280, 240>>

C15_WitnessTwoLabels ==
    /\ GeometryDone
    /\ Len(boxes) = 2
    /\ boxes[1].label = "bottle" /\ boxes[2].label = "cup"
    /\ ScoreOf(1) = 30 /\ ScoreOf(2) = 30
    /\ locals.target_object_name = "bottle"

====
